---- MODULE Spec2Model ----
(***************************************************************************)
(* Model of the ETL importers of data_dashboards_ai:                       *)
(*   src/create_update_db.py  (Excel importer)                             *)
(*   src/update_db_sheets.py  (Excel / Google Sheets importer)             *)
(* Spreadsheet header flattening, open-period detection, pro-rata          *)
(* forecasting and the PostgreSQL upsert keyed by (period, period_type).   *)
(***************************************************************************)
EXTENDS Integers, Sequences, FiniteSets, TLC

VARIABLES
    sheet,   \* the sheet imported and the importer used: [cfg, imp, excel]
    db,      \* the PostgreSQL database: table name -> table (or NoTable)
    today,   \* the current day (pd.Timestamp.today().normalize())
    run,     \* record of the last process_sheet run
    mk,      \* input and output of the last mark_open_period call
    fl,      \* input and output of the last flatten_columns call
    nm,      \* input and output of the last extract_number call
    app,     \* the Streamlit session of app.py and its last script run
    mn       \* the position of the importer's main in SHEET_CONFIG

vars == <<sheet, db, today, run, mk, fl, nm, app, mn>>

(***************************************************************************)
(* Generic helpers                                                         *)
(***************************************************************************)
Range(s) == {s[i] : i \in DOMAIN s}

\* the sequence s and the function f, as explicit values
SeqOf(s) == s \o <<>>

FcnOf(f) == f @@ <<>>

Max(a, b) == IF a >= b THEN a ELSE b

Abs(x) == IF x < 0 THEN 0 - x ELSE x

RECURSIVE Gcd(_, _)
Gcd(a, b) == IF b = 0 THEN a ELSE Gcd(b, a % b)

\* the first and the last index of the set of indices is, 0 when it is empty
FirstIdx(is) == IF is = {} THEN 0 ELSE CHOOSE i \in is : \A j \in is : i <= j

LastIdx(is) == IF is = {} THEN 0 ELSE CHOOSE i \in is : \A j \in is : j <= i

(***************************************************************************)
(* Cell values.  Every value is a tagged tuple, NULL (NaN / NaT / pd.NA /  *)
(* SQL NULL) is the empty tuple.                                           *)
(*   I(k)    int64 k                                                       *)
(*   F(m)    float64 m/1000 (fixed point, three decimals)                  *)
(*   Q(n,d)  float64 n/d in lowest terms (result of a float division)      *)
(*   D(d)    datetime, d = day number, day 1 = Monday 2024-01-01           *)
(*   S(s)    text                                                          *)
(*   B(b)    bool                                                          *)
(***************************************************************************)
NULL == <<>>

I(k) == <<"i", k>>

F(m) == <<"f", m>>

D(d) == <<"d", d>>

S(s) == <<"s", s>>

B(b) == <<"b", b>>

Q(n, d) ==
    LET g == Gcd(Abs(n), d) IN
    IF g = 0 THEN <<"q", n, d>> ELSE <<"q", n \div g, d \div g>>

Tag(v) == IF v = NULL THEN "null" ELSE v[1]

\* numerator of a numeric value over the denominator 1000
Milli(v) == IF Tag(v) = "i" THEN 1000 * v[2] ELSE v[2]

(***************************************************************************)
(* Calendar: day numbers of 2024 (a leap year that starts on a Monday).    *)
(***************************************************************************)
MonthLengths == <<31, 29, 31, 30, 31, 30, 31, 31, 30, 31, 30, 31>>

RECURSIVE DaysBefore(_)
DaysBefore(m) == IF m <= 1 THEN 0 ELSE DaysBefore(m - 1) + MonthLengths[m - 1]

\* Timestamp.month
MonthOf(d) == CHOOSE m \in 1..12 : DaysBefore(m) < d /\ d <= DaysBefore(m) + MonthLengths[m]

\* Timestamp.day
DayOfMonth(d) == d - DaysBefore(MonthOf(d))

\* calendar.monthrange(year, month)[1]
MonthRange(m) == MonthLengths[m]

\* Timestamp.weekday(), Monday = 0
Weekday(d) == (d - 1) % 7

\* Timestamp.isocalendar().week
IsoWeek(d) == ((d - 1) \div 7) + 1

(***************************************************************************)
(* Text is a sequence of one-character strings.                            *)
(***************************************************************************)
Digits == <<"0", "1", "2", "3", "4", "5", "6", "7", "8", "9">>

DigitSet == Range(Digits)

DigitChar(k) == Digits[k + 1]

\* text cell
T(cs) == <<"t", cs>>

RECURSIVE NatStr(_)
NatStr(n) == IF n < 10 THEN <<DigitChar(n)>> ELSE NatStr(n \div 10) \o <<DigitChar(n % 10)>>

RECURSIVE NatVal(_)
NatVal(ds) ==
    IF ds = <<>> THEN 0
    ELSE 10 * NatVal(SubSeq(ds, 1, Len(ds) - 1)) + (CHOOSE i \in DOMAIN Digits : Digits[i] = ds[Len(ds)]) - 1

\* str(float) for m/1000: the shortest decimal form, at least one decimal
StrFloat(m) ==
    LET a  == Abs(m)
        fp == a % 1000
        fr == IF fp % 100 = 0 THEN <<DigitChar(fp \div 100)>>
              ELSE IF fp % 10 = 0
                   THEN <<DigitChar(fp \div 100), DigitChar((fp \div 10) % 10)>>
                   ELSE <<DigitChar(fp \div 100), DigitChar((fp \div 10) % 10),
                          DigitChar(fp % 10)>>
    IN  (IF m < 0 THEN <<"-">> ELSE <<>>) \o NatStr(a \div 1000) \o <<".">> \o fr

\* Series.astype(str) of one cell
StrOf(v) ==
    CASE Tag(v) = "null" -> <<"n", "a", "n">>
      [] Tag(v) = "i"    -> IF v[2] < 0 THEN <<"-">> \o NatStr(0 - v[2]) ELSE NatStr(v[2])
      [] Tag(v) = "f"    -> StrFloat(v[2])
      [] Tag(v) = "t"    -> v[2]
      [] OTHER           -> <<>>

\* a float() in the manner of atof: the leading digits of the text are read
\* and the rest is ignored
ParseFloatPrefix(core) ==
    LET stop == {i \in DOMAIN core : core[i] \notin DigitSet} \cup {Len(core) + 1}
        n    == CHOOSE i \in stop : \A j \in stop : i <= j
    IN  F(1000 * NatVal(SubSeq(core, 1, n - 1)))

\* float(core): [-]digits[.digits] or [-].digits, anything else is a
\* ValueError, reported as NULL; the value is kept to three decimals
ParseFloat(core) ==
    LET neg  == core # <<>> /\ core[1] = "-"
        body == IF neg THEN Tail(core) ELSE core
        dots == {i \in DOMAIN body : body[i] = "."}
        dot  == IF dots = {} THEN Len(body) + 1 ELSE CHOOSE i \in dots : TRUE
        ip   == SubSeq(body, 1, dot - 1)
        fp   == SubSeq(body, dot + 1, Len(body))
        fp3  == SubSeq(fp \o <<"0", "0", "0">>, 1, 3)
        ok   == /\ \A i \in DOMAIN body : body[i] \in DigitSet \cup {"."}
                /\ Cardinality(dots) <= 1
                /\ \E i \in DOMAIN body : body[i] \in DigitSet
        mag  == 1000 * NatVal(ip) + NatVal(fp3)
    IN  IF ok THEN F(IF neg THEN 0 - mag ELSE mag) ELSE NULL

\* core.split(sep, 1) and the three-digits rule of extract_number
SplitRule(core, sep) ==
    LET p     == CHOOSE i \in DOMAIN core :
                     core[i] = sep /\ \A j \in 1..(i - 1) : core[j] # sep
        left  == SubSeq(core, 1, p - 1)
        right == SubSeq(core, p + 1, Len(core))
    IN  IF Len(right) = 3 THEN left \o right ELSE left \o <<".">> \o right

extract_number(txt) ==
    LET core     == SelectSeq(txt, LAMBDA c : c \in DigitSet \cup {"-", ",", "."})
        hasComma == \E i \in DOMAIN core : core[i] = ","
        hasDot   == \E i \in DOMAIN core : core[i] = "."
    IN  IF core = <<>> THEN NULL
        ELSE IF hasComma /\ hasDot THEN ParseFloat(SelectSeq(core, LAMBDA c : c # ","))
        ELSE IF hasComma THEN ParseFloat(SplitRule(core, ","))
        ELSE IF hasDot THEN ParseFloat(SplitRule(core, "."))
        ELSE ParseFloat(core)

\* the cleaning pass of mark_open_period over one cell
CleanCell(v) == extract_number(SelectSeq(StrOf(v), LAMBDA c : c \notin {" ", "nbsp"}))

(***************************************************************************)
(* float64 arithmetic.  A natural number of any size is the sequence of    *)
(* its digits in base 2^16, the least significant first.  A positive       *)
(* double is [m |-> digits, e |-> k]: its 53-bit significand and the       *)
(* exponent of the last bit, so that its value is m * 2^k.  An operation   *)
(* rounds its exact result to the nearest double, ties to even (IEEE 754). *)
(***************************************************************************)
MantBits == 53

Base == 2 ^ 16

BigOf(n) ==
    IF n = 0 THEN <<>> ELSE IF n < Base THEN <<n>> ELSE <<n % Base, n \div Base>>

BigToNat(x) ==
    IF x = <<>> THEN 0 ELSE IF Len(x) = 1 THEN x[1] ELSE x[1] + Base * x[2]

RECURSIVE BigNorm(_)
BigNorm(x) ==
    IF x # <<>> /\ x[Len(x)] = 0 THEN BigNorm(SubSeq(x, 1, Len(x) - 1)) ELSE x

\* bit i of x, bit 0 the least significant
BigBit(x, i) ==
    LET k == i \div 16 + 1 IN
    IF k > Len(x) THEN 0 ELSE (x[k] \div 2 ^ (i % 16)) % 2

\* some bit of x below bit i is set
BigLowBits(x, i) == \E j \in 0..(i - 1) : BigBit(x, j) = 1

BitLen(x) ==
    IF x = <<>> THEN 0
    ELSE LET top == x[Len(x)] IN
         16 * (Len(x) - 1)
           + (CHOOSE b \in 1..16 : 2 ^ (b - 1) <= top /\ top < 2 ^ b)

\* x divided by the small d, digits i..1: <<quotient, remainder>>
RECURSIVE DivLimbs(_, _, _, _)
DivLimbs(x, d, i, r) ==
    IF i = 0 THEN << <<>>, r >>
    ELSE LET cur  == r * Base + x[i]
             rest == DivLimbs(x, d, i - 1, cur % d)
         IN  <<Append(rest[1], cur \div d), rest[2]>>

\* x times the small k plus carry, digits i..Len(x)
RECURSIVE MulLimbs(_, _, _, _)
MulLimbs(x, k, i, carry) ==
    IF i > Len(x) THEN BigOf(carry)
    ELSE LET cur == x[i] * k + carry IN
         <<cur % Base>> \o MulLimbs(x, k, i + 1, cur \div Base)

BigDivSmall(x, d) ==
    LET dv == DivLimbs(x, d, Len(x), 0) IN <<BigNorm(dv[1]), dv[2]>>

BigMulSmall(x, k) == BigNorm(MulLimbs(x, k, 1, 0))

\* x * 2^s and floor(x / 2^s)
BigShl(x, s) ==
    IF x = <<>> THEN <<>>
    ELSE BigMulSmall([i \in 1..(s \div 16) |-> 0] \o x, 2 ^ (s % 16))

BigShr(x, s) ==
    IF s \div 16 >= Len(x) THEN <<>>
    ELSE BigDivSmall(SubSeq(x, s \div 16 + 1, Len(x)), 2 ^ (s % 16))[1]

\* the double nearest to x * 2^e (x > 0); sticky says that the exact value
\* is a little larger than x * 2^e
RoundBig(x, e, sticky) ==
    LET len == BitLen(x) IN
    IF len <= MantBits
    THEN [m |-> BigShl(x, MantBits - len), e |-> e - (MantBits - len)]
    ELSE LET drop  == len - MantBits
             m     == BigShr(x, drop)
             guard == BigBit(x, drop - 1) = 1
             rest  == sticky \/ BigLowBits(x, drop - 1)
             up    == guard /\ (rest \/ BigBit(m, 0) = 1)
             m1    == IF up THEN BigNorm(MulLimbs(m, 1, 1, 1)) ELSE m
         IN  IF BitLen(m1) > MantBits
             THEN [m |-> BigShr(m1, 1), e |-> e + drop + 1]
             ELSE [m |-> m1, e |-> e + drop]

\* float(text) for the decimal n/1000, n > 0
FloatOfMilli(n) ==
    LET dv == BigDivSmall(BigShl(BigOf(n), 64), 1000)
    IN  RoundBig(dv[1], 0 - 64, dv[2] # 0)

\* x / d for a small integer d > 0
FloatDiv(x, d) ==
    LET dv == BigDivSmall(BigShl(x.m, 16), d)
    IN  RoundBig(dv[1], x.e - 16, dv[2] # 0)

\* x * k for a small integer k > 0
FloatMul(x, k) == RoundBig(BigMulSmall(x.m, k), x.e, FALSE)

\* PyRound that drops the fraction
PyRoundDown(x) == BigToNat(BigShr(x.m, 0 - x.e))

\* round(x) of Python: the nearest integer, ties to even (1/2 <= ... < 2^31)
PyRound(x) ==
    LET f     == 0 - x.e
        q     == BigToNat(BigShr(x.m, f))
        guard == BigBit(x.m, f - 1) = 1
        rest  == BigLowBits(x.m, f - 1)
    IN  IF guard /\ (rest \/ q % 2 = 1) THEN q + 1 ELSE q

(***************************************************************************)
(* Column names are sequences of tokens: a word, or the underscore "_".    *)
(* A DataFrame is [cols |-> sequence of names, rows |-> sequence of rows], *)
(* a row a function from the names to cell values.                         *)
(***************************************************************************)
NoCol == <<>>

ColPeriod == <<"period">>

ColPeriodIfAbsent == <<"period", "_", "if", "_", "absent">>

ColPeriodType == <<"period", "_", "type">>

ColSnapshot == <<"snapshot", "_", "date">>

ColStart == <<"start", "_", "date">>

ColEnd == <<"end", "_", "date">>

ColIsFinal == <<"is", "_", "final">>

ForecastOf(c) == c \o <<"_", "forecast">>

\* df[c] = vals (a new column is appended)
SetCol(df, c, vals) ==
    [cols |-> IF c \in Range(df.cols) THEN df.cols ELSE Append(df.cols, c),
     rows |-> SeqOf([i \in DOMAIN df.rows |-> (c :> vals[i]) @@ df.rows[i]])]

\* pd.to_datetime(x, errors="coerce") of a cell: what is no date becomes NaT
ToDatetime(v) == IF Tag(v) = "d" THEN v ELSE NULL

DateLe(a, b) == a # NULL /\ b # NULL /\ a[2] <= b[2]

\* int(round(val / ed * td)), every operation in float64
ForecastInt(val, ed, td) ==
    LET n == Milli(val) IN
    IF n = 0 THEN I(0)
    ELSE LET r == PyRound(FloatMul(FloatDiv(FloatOfMilli(Abs(n)), ed), td))
         IN  I(IF n < 0 THEN 0 - r ELSE r)

\* df[f"{col}_forecast"] = ... for every col of numeric, in order
WithForecasts(df, numeric, fc) ==
    LET names  == [j \in DOMAIN numeric |-> ForecastOf(numeric[j])]
        IsNew(c) == c \notin Range(df.cols)
    IN  [cols |-> df.cols \o SelectSeq(names, IsNew),
         rows |-> SeqOf([i \in DOMAIN df.rows |->
                     FcnOf([k \in Range(names) |->
                               fc[i, CHOOSE c \in Range(numeric) : ForecastOf(c) = k]])
                     @@ df.rows[i]])]

\* final on the day after the end date only
IsFinalDayAfterEnd(endv, tday) == endv # NULL /\ endv[2] = tday - 1

SheetsIsFinalDates(endv, tday) == endv # NULL /\ endv[2] < tday

SheetsCurrentFromStart(startv, endv, tday) == DateLe(startv, D(tday))

SheetsCurrentDates(startv, endv, tday) == DateLe(startv, D(tday)) /\ DateLe(D(tday), endv)

\* update_db_sheets.mark_open_period; [ok |-> FALSE] when it raises
SheetsMarkOpenPeriod(df0, tday) ==
    LET si        == FirstIdx({i \in DOMAIN df0.cols : df0.cols[i] = ColStart})
        ei        == FirstIdx({i \in DOMAIN df0.cols : df0.cols[i] = ColEnd})
        start_col == IF si = 0 THEN NoCol ELSE df0.cols[si]
        end_col   == IF ei = 0 THEN NoCol ELSE df0.cols[ei]
        n         == Len(df0.rows)
        dated     == end_col # NoCol
        \* the start/end columns as datetimes
        df1       == IF dated
                     THEN SetCol(SetCol(df0, start_col,
                                 [i \in 1..n |-> ToDatetime(df0.rows[i][start_col])]),
                                 end_col,
                                 [i \in 1..n |-> ToDatetime(df0.rows[i][end_col])])
                     ELSE df0
        isWeek    == df0.rows[1][ColPeriodType] = S("week")
        current   == IF isWeek THEN IsoWeek(tday) ELSE MonthOf(tday)
        total0    == IF isWeek THEN 7 ELSE MonthRange(MonthOf(tday))
        elapsed0  == IF isWeek THEN Weekday(tday) + 1 ELSE DayOfMonth(tday)
        is_final  == SeqOf([i \in 1..n |->
                        IF dated
                        THEN B(SheetsIsFinalDates(df1.rows[i][end_col], tday))
                        ELSE B(Milli(df1.rows[i][ColPeriod]) < 1000 * current)])
        mask      == SeqOf([i \in 1..n |->
                        IF dated
                        THEN SheetsCurrentDates(df1.rows[i][start_col],
                                                df1.rows[i][end_col], tday)
                        ELSE Milli(df1.rows[i][ColPeriod]) = 1000 * current])
        df2       == SetCol(df1, ColIsFinal, is_final)
        skip      == {ColPeriod, ColPeriodType, start_col, end_col, ColIsFinal, ColSnapshot}
        IsMetric(c) == c \notin skip
        metrics   == SelectSeq(df2.cols, IsMetric)
        \* every other cell goes through extract_number
        df3       == [cols |-> df2.cols,
                      rows |-> SeqOf([i \in 1..n |->
                                  FcnOf([k \in DOMAIN df2.rows[i] |->
                                      IF k \in skip THEN df2.rows[i][k]
                                      ELSE CleanCell(df2.rows[i][k])])])]
        numeric   == IF n = 0 THEN <<>> ELSE metrics
        ed(i)     == IF dated THEN tday - df3.rows[i][start_col][2] + 1 ELSE elapsed0
        td(i)     == IF dated
                     THEN IF df3.rows[i][ColPeriodType] = S("week") THEN 7
                          ELSE MonthRange(MonthOf(df3.rows[i][start_col][2]))
                     ELSE total0
        fc        == [i \in 1..n, c \in Range(numeric) |->
                         IF mask[i] /\ ed(i) > 0 /\ df3.rows[i][c] # NULL
                         THEN ForecastInt(df3.rows[i][c], ed(i), td(i))
                         ELSE NULL]
        df4       == WithForecasts(df3, numeric, fc)
    IN  IF dated /\ start_col = NoCol THEN [ok |-> FALSE, df |-> df0]   \* KeyError: None
        ELSE IF ~dated /\ n = 0 THEN [ok |-> FALSE, df |-> df0]         \* IndexError: iloc[0]
        ELSE [ok |-> TRUE, df |-> df4]

\* dtype of the column is one of the numeric ones
IsNumberCol(df, c) ==
    \A i \in DOMAIN df.rows : Tag(df.rows[i][c]) \in {"null", "i", "f"}

CreateIsFinalDates(endv, tday) == DateLe(endv, D(tday))

\* ratio = elapsed / duration > 0, as the pair <<elapsed, duration>>
CreateRatio(startv, endv, tday) ==
    IF startv = NULL \/ endv = NULL THEN <<0, 1>>
    ELSE <<Max(tday - startv[2], 0), Max(endv[2] - startv[2], 1)>>

\* create_update_db.mark_open_period
CreateMarkOpenPeriod(df0, tday) ==
    LET si        == LastIdx({i \in DOMAIN df0.cols : df0.cols[i] \in {<<"start">>, ColStart}})
        ei        == LastIdx({i \in DOMAIN df0.cols : df0.cols[i] \in {<<"end">>, ColEnd}})
        start_col == IF si = 0 THEN NoCol ELSE df0.cols[si]
        end_col   == IF ei = 0 THEN NoCol ELSE df0.cols[ei]
        n         == Len(df0.rows)
        df1       == IF end_col # NoCol
                     THEN SetCol(df0, end_col,
                                 [i \in 1..n |-> ToDatetime(df0.rows[i][end_col])])
                     ELSE df0
        max_period == CHOOSE p \in {Milli(df0.rows[i][ColPeriod]) : i \in 1..n} :
                          \A i \in 1..n : Milli(df0.rows[i][ColPeriod]) <= p
        is_final  == SeqOf([i \in 1..n |->
                        IF end_col # NoCol
                        THEN B(CreateIsFinalDates(df1.rows[i][end_col], tday))
                        ELSE B(Milli(df1.rows[i][ColPeriod]) # max_period)])
        df2       == SetCol(df1, ColIsFinal, is_final)
        both      == start_col # NoCol /\ end_col # NoCol
        df3       == IF both
                     THEN SetCol(df2, start_col,
                                 [i \in 1..n |-> ToDatetime(df2.rows[i][start_col])])
                     ELSE df2
        ratio(i)  == CreateRatio(df3.rows[i][start_col], df3.rows[i][end_col], tday)
        current(i) == /\ DateLe(df3.rows[i][start_col], D(tday))
                      /\ DateLe(D(tday), df3.rows[i][end_col])
        mask(i)   == both /\ current(i) /\ ~is_final[i][2] /\ ratio(i)[1] > 0
        IsNumber(c) == c \notin {start_col, end_col} /\ IsNumberCol(df3, c)
        numeric   == SelectSeq(df3.cols, IsNumber)
        fc        == [i \in 1..n, c \in Range(numeric) |->
                         IF mask(i) /\ df3.rows[i][c] # NULL
                         THEN Q(Milli(df3.rows[i][c]) * ratio(i)[2], 1000 * ratio(i)[1])
                         ELSE NULL]
    IN  IF n = 0 THEN [ok |-> TRUE, df |-> SetCol(df0, ColIsFinal, <<>>)]
        ELSE [ok |-> TRUE, df |-> WithForecasts(df3, numeric, fc)]

Importers == {"create_update_db", "update_db_sheets"}

mark_open_period(imp, df, tday) ==
    IF imp = "create_update_db" THEN CreateMarkOpenPeriod(df, tday)
    ELSE SheetsMarkOpenPeriod(df, tday)

(***************************************************************************)
(* Inputs of mark_open_period: frames as process_sheet hands them over     *)
(* (period, optional start/end dates, one metric, period_type and          *)
(* snapshot_date).                                                         *)
(***************************************************************************)
MaxMarkRows == 2

ColSessions == <<"sessions">>

\* <<period, start, end>>: ISO weeks 4..6 of 2024, a ten-day "week", and
\* a row whose end date did not parse
WeekSpans == {<<4, D(22), D(28)>>, <<5, D(29), D(35)>>, <<6, D(36), D(42)>>,
              <<5, D(29), D(38)>>, <<5, D(29), NULL>>}

\* January and February 2024, and a row without end date
MonthSpans == {<<1, D(1), D(31)>>, <<2, D(32), D(60)>>, <<2, D(32), NULL>>}

MarkVals == {NULL, I(10), F(57500), F(1234)}

MarkRow(ptype, dated, span, val, snap) ==
    LET base == (ColPeriod :> I(span[1])) @@ (ColSessions :> val)
                @@ (ColPeriodType :> S(ptype)) @@ (ColSnapshot :> D(snap))
    IN  IF dated THEN base @@ (ColStart :> span[2]) @@ (ColEnd :> span[3]) ELSE base

MarkCols(dated) ==
    IF dated THEN <<ColPeriod, ColStart, ColEnd, ColSessions, ColPeriodType, ColSnapshot>>
    ELSE <<ColPeriod, ColSessions, ColPeriodType, ColSnapshot>>

MarkFrames(ptype, dated, tday) ==
    LET spans == IF ptype = "week" THEN WeekSpans ELSE MonthSpans
        rowset == {MarkRow(ptype, dated, sp, v, tday) : sp \in spans, v \in MarkVals}
    IN  {[cols |-> MarkCols(dated), rows |-> rs] :
            rs \in UNION {[1..k -> rowset] : k \in 1..MaxMarkRows}}

NoFrame == [cols |-> <<>>, rows |-> <<>>]

NoMark == [called |-> FALSE, imp |-> "", today |-> 0, ptype |-> "", dated |-> FALSE,
           in |-> NoFrame, ok |-> FALSE, out |-> NoFrame]

MarkCall(imp, ptype, dated, tday, df) ==
    /\ ~mk.called
    /\ \E res \in {mark_open_period(imp, df, tday)} :
        mk' = [called |-> TRUE, imp |-> imp, today |-> tday, ptype |-> ptype,
               dated |-> dated, in |-> df, ok |-> res.ok, out |-> res.df]
    /\ UNCHANGED <<sheet, db, today, run, fl, nm, app, mn>>

MarkNext ==
    \E imp \in Importers, ptype \in {"week", "month"}, dated \in BOOLEAN, tday \in {29, 31, 32, 35} :
        \E df \in MarkFrames(ptype, dated, tday) :
            MarkCall(imp, ptype, dated, tday, df)

(***************************************************************************)
(* Header text is a sequence of tokens: words, the underscore "_", the     *)
(* blank " " and punctuation.  re's \W matches blanks and punctuation.     *)
(***************************************************************************)
\* header cell
H(ts) == <<"h", ts>>

IsWordTok(t) == t \notin {" ", ":", "|", "(", ")", ",", "'", "-", ".", "%", "/"}

\* str.lower() of a word
LowerTok(t) ==
    CASE t = "Week"    -> "week"
      [] t = "Month"   -> "month"
      [] t = "Mese"    -> "mese"
      [] t = "Start"   -> "start"
      [] t = "End"     -> "end"
      [] t = "Brand"   -> "brand"
      [] t = "A"       -> "a"
      [] t = "B"       -> "b"
      [] t = "Sessions" -> "sessions"
      [] t = "Clicks"  -> "clicks"
      [] t = "Trend"   -> "trend"
      [] t = "Unnamed" -> "unnamed"
      [] t = "Report"  -> "report"
      [] OTHER         -> t

RECURSIVE LStrip(_)
LStrip(ts) == IF ts # <<>> /\ ts[1] = " " THEN LStrip(Tail(ts)) ELSE ts

RECURSIVE RStrip(_)
RStrip(ts) ==
    IF ts # <<>> /\ ts[Len(ts)] = " " THEN RStrip(SubSeq(ts, 1, Len(ts) - 1)) ELSE ts

\* str.strip()
Strip(ts) == RStrip(LStrip(ts))

Lower(ts) == [i \in DOMAIN ts |-> LowerTok(ts[i])]

\* re.sub(r"\W+", "_", x.strip().lower())
clean(ts) ==
    LET x       == Lower(Strip(ts))
        Keep(i) == IsWordTok(x[i]) \/ i = 1 \/ IsWordTok(x[i - 1])
        kept    == SelectSeq([i \in DOMAIN x |-> i], Keep)
    IN  [j \in DOMAIN kept |-> IF IsWordTok(x[kept[j]]) THEN x[kept[j]] ELSE "_"]

\* name.split("_"): the parts between the underscores
RECURSIVE Split(_)
Split(ts) ==
    LET p == FirstIdx({i \in DOMAIN ts : ts[i] = "_"}) IN
    IF p = 0 THEN <<ts>>
    ELSE <<SubSeq(ts, 1, p - 1)>> \o Split(SubSeq(ts, p + 1, Len(ts)))

\* "_".join(parts)
RECURSIVE Join(_)
Join(parts) ==
    IF parts = <<>> THEN <<>>
    ELSE IF Len(parts) = 1 THEN parts[1]
    ELSE parts[1] \o <<"_">> \o Join(Tail(parts))

RECURSIVE StripUnderscores(_)
StripUnderscores(ts) ==
    IF ts # <<>> /\ ts[1] = "_" THEN StripUnderscores(Tail(ts))
    ELSE IF ts # <<>> /\ ts[Len(ts)] = "_" THEN StripUnderscores(SubSeq(ts, 1, Len(ts) - 1))
    ELSE ts

\* re.sub(r"_+", "_", name).strip("_")
normalize_name(ts) ==
    LET Keep(i) == ts[i] # "_" \/ i = 1 \/ ts[i - 1] # "_"
        kept    == SelectSeq([i \in DOMAIN ts |-> i], Keep)
    IN  StripUnderscores([j \in DOMAIN kept |-> ts[kept[j]]])

StartsWith(ts, pre) == Len(ts) >= Len(pre) /\ SubSeq(ts, 1, Len(pre)) = pre

EndsWith(ts, suf) ==
    Len(ts) >= Len(suf) /\ SubSeq(ts, Len(ts) - Len(suf) + 1, Len(ts)) = suf

\* the words of the vocabulary that contain k as a substring
WordHas(w, k) ==
    \/ w = k
    \/ k = "end"  /\ w \in {"trend", "weekend"}
    \/ k = "week" /\ w \in {"weekend", "weekly"}

\* Python's "k in name"
Contains(ts, k) ==
    IF Len(k) = 1 THEN \E i \in DOMAIN ts : WordHas(ts[i], k[1])
    ELSE \E i \in 1..(Len(ts) - Len(k) + 1) : SubSeq(ts, i, i + Len(k) - 1) = k

(***************************************************************************)
(* Raw sheets.  raw is a sequence of rows, a row a sequence of cells.  An  *)
(* empty cell is NULL (NaN) in an Excel sheet and H(<<>>) (the empty       *)
(* string) in a Google sheet.  A caption cell C(frags) is text that may    *)
(* hold dates: frags is a sequence of <<"txt">>, <<"iso", d>> (yyyy-mm-dd) *)
(* and <<"euro", d>> (dd/mm/yyyy).                                         *)
(***************************************************************************)
C(frags) == <<"c", frags>>

FragTokens(f) ==
    CASE f[1] = "iso"  -> <<"yyyy", "-", "mm", "-", "dd">>
      [] f[1] = "euro" -> <<"dd", "/", "mm", "/", "yyyy">>
      [] OTHER         -> <<"Report">>

RECURSIVE CaptionTokens(_)
CaptionTokens(frags) ==
    IF frags = <<>> THEN <<>>
    ELSE IF Len(frags) = 1 THEN FragTokens(frags[1])
    ELSE FragTokens(frags[1]) \o <<" ">> \o CaptionTokens(Tail(frags))

\* str(cell) of a header-area cell, as tokens
StrTok(v) ==
    CASE Tag(v) = "null" -> <<"nan">>
      [] Tag(v) = "h"    -> v[2]
      [] Tag(v) = "c"    -> CaptionTokens(v[2])
      [] Tag(v) = "i"    -> <<ToString(v[2])>>
      [] OTHER           -> <<"value">>

\* the date fragments of str(cell)
DateFrags(v) ==
    CASE Tag(v) = "c" -> SelectSeq(v[2], LAMBDA f : f[1] \in {"iso", "euro"})
      [] Tag(v) = "d" -> << <<"iso", v[2]>> >>
      [] OTHER        -> <<>>

\* raw_df.iloc[:2, 0].astype(str).str.cat(sep=" ")
FirstRows(raw) ==
    IF Len(raw) = 0 THEN <<>>
    ELSE IF Len(raw) = 1 THEN DateFrags(raw[1][1])
    ELSE DateFrags(raw[1][1]) \o DateFrags(raw[2][1])

SnapshotEuroFirst(raw, tday, now) ==
    LET fr   == FirstRows(raw)
        iso  == FirstIdx({i \in DOMAIN fr : fr[i][1] = "iso"})
        euro == FirstIdx({i \in DOMAIN fr : fr[i][1] = "euro"})
    IN  IF euro # 0 THEN D(fr[euro][2])
        ELSE IF iso # 0 THEN D(fr[iso][2])
        ELSE D(tday) \o <<now>>

\* a date of the caption is a day; pd.Timestamp("today") is the day and the
\* time of day of the call
extract_snapshot_date(raw, tday, now) ==
    LET fr   == FirstRows(raw)
        iso  == FirstIdx({i \in DOMAIN fr : fr[i][1] = "iso"})
        euro == FirstIdx({i \in DOMAIN fr : fr[i][1] = "euro"})
    IN  IF iso # 0 THEN D(fr[iso][2])
        ELSE IF euro # 0 THEN D(fr[euro][2])
        ELSE D(tday) \o <<now>>

\* the last qualifying row instead of the first
HeaderRowLast(raw) == LastIdx({i \in DOMAIN raw : Tag(raw[i][1]) = "h"})

IsHeaderCell(v) == Tag(v) = "h" /\ Lower(Strip(v[2])) \in {<<"week">>, <<"month">>}

\* the index of the header row (1-based), 0 when ValueError is raised
find_header_row(raw) == FirstIdx({i \in DOMAIN raw : IsHeaderCell(raw[i][1])})

\* Series.ffill() over a row of token strings, NULL where nothing precedes
Ffill(row) ==
    [i \in DOMAIN row |->
        LET js == {j \in 1..i : row[j] # NULL} IN
        IF js = {} THEN NULL ELSE row[CHOOSE j \in js : \A k \in js : k <= j]]

(***************************************************************************)
(* Column labels as pandas.read_excel produces them.                       *)
(***************************************************************************)
IsEmptyCell(v) == v = NULL \/ (Tag(v) = "h" /\ v[2] = <<>>)

\* header=h: an empty header cell is "Unnamed: i", a repeated label gets ".k"
PandasHeader(row) ==
    [i \in DOMAIN row |->
        IF IsEmptyCell(row[i]) THEN <<"Unnamed", ":", " ", ToString(i - 1)>>
        ELSE LET k == Cardinality({j \in 1..(i - 1) : row[j] = row[i]})
             IN  IF k = 0 THEN StrTok(row[i])
                 ELSE StrTok(row[i]) \o <<".", ToString(k)>>]

UnnamedLevel(i, lvl) == <<"Unnamed", ":", " ", ToString(i - 1), "_", "level", "_", lvl>>

\* header=[h-1, h]: blank cells of the upper row are filled from the left,
\* blank cells of the lower row are filled from the left inside one group
RECURSIVE FillLower(_, _, _)
FillLower(upper, lower, i) ==
    IF i = 0 THEN <<>>
    ELSE LET prev == FillLower(upper, lower, i - 1)
             v    == IF ~IsEmptyCell(lower[i]) THEN StrTok(lower[i])
                     ELSE IF i = 1 \/ ~IsEmptyCell(upper[i]) THEN <<>>
                     ELSE prev[i - 1]
         IN  Append(prev, v)

PandasMultiHeader(upper, lower) ==
    LET up  == [i \in DOMAIN upper |-> IF IsEmptyCell(upper[i]) THEN NULL ELSE StrTok(upper[i])]
        l0  == Ffill(up)
        l1  == FillLower(upper, lower, Len(lower))
    IN  [i \in DOMAIN lower |->
            <<IF l0[i] = NULL THEN UnnamedLevel(i, "0") ELSE l0[i],
              IF l1[i] = <<>> THEN UnnamedLevel(i, "1") ELSE l1[i]>>]

\* str((a, b)) of a MultiIndex label
TupleStr(t) == <<"(", "'">> \o t[1] \o <<"'", ",", " ", "'">> \o t[2] \o <<"'", ")">>

(***************************************************************************)
(* flatten_columns.  The result lists the kept columns: names[j] is the    *)
(* name of the frame's j-th column and src[j] the sheet column it holds.   *)
(***************************************************************************)
\* a tail that keeps every column
FlattenTailKeepAll(names) == [names |-> names, src |-> [i \in DOMAIN names |-> i]]

\* the tail of flatten_columns: period_if_absent, duplicated names
FlattenTail(names) ==
    LET n1      == IF ColPeriod \notin Range(names) /\ ColPeriodIfAbsent \in Range(names)
                   THEN [i \in DOMAIN names |->
                            IF names[i] = ColPeriodIfAbsent THEN ColPeriod ELSE names[i]]
                   ELSE names
        dropPia == ColPeriod \in Range(n1) /\ ColPeriodIfAbsent \in Range(n1)
        Keep(i) == /\ ~(dropPia /\ n1[i] = ColPeriodIfAbsent)
                   /\ \A j \in 1..(i - 1) : n1[j] # n1[i]
        kept    == SelectSeq([i \in DOMAIN n1 |-> i], Keep)
    IN  [names |-> [j \in DOMAIN kept |-> n1[kept[j]]], src |-> kept]

CreateMapping ==
    << <<<<"week">>, ColPeriod>>, <<<<"mese">>, ColPeriodIfAbsent>>,
       <<<<"month">>, ColPeriodIfAbsent>>, <<<<"start">>, ColStart>>,
       <<ColStart, ColStart>>, <<<<"end">>, ColEnd>>, <<ColEnd, ColEnd>> >>

CreateMatches(name, k) ==
    \/ name = k
    \/ EndsWith(name, <<"_">> \o k \o <<"_">>)
    \/ EndsWith(name, <<"_">> \o k)
    \/ (StartsWith(name, <<"_", "unnamed">>) /\ Contains(name, k))

\* create_update_db.flatten_columns.standardize
standardize(name) ==
    LET m == FirstIdx({i \in DOMAIN CreateMapping : CreateMatches(name, CreateMapping[i][1])}) IN
    IF m = 0 THEN name ELSE CreateMapping[m][2]

\* the name of one column under a two-row header
CreateMultiName(topCell, label) ==
    LET top          == IF topCell = NULL THEN <<>> ELSE StrTok(topCell)
        brand        == clean(top)
        metric_clean == standardize(clean(TupleStr(label)))
        is_unnamed   == StartsWith(Lower(Strip(top)), <<"unnamed">>) \/ brand = <<>>
    IN  IF is_unnamed \/ metric_clean \in {ColPeriod, ColPeriodIfAbsent, ColStart, ColEnd} THEN metric_clean
        ELSE brand \o <<"_">> \o metric_clean

\* create_update_db.flatten_columns; h is the header row, multi the kind of
\* header process_sheet read
CreateFlatten(raw, h, multi) ==
    IF multi
    THEN LET labels == PandasMultiHeader(raw[h - 1], raw[h]) IN
         FlattenTail([i \in DOMAIN raw[h] |-> CreateMultiName(raw[h - 1][i], labels[i])])
    ELSE LET labels == PandasHeader(raw[h]) IN
         FlattenTail([i \in DOMAIN raw[h] |-> standardize(clean(labels[i]))])

SheetsMapPart(part) ==
    CASE part = <<"week">>  -> ColPeriod
      [] part = <<"month">> -> ColPeriod
      [] part = <<"start">> -> ColStart
      [] part = <<"end">>   -> ColEnd
      [] OTHER              -> part

\* the word-by-word standardisation of update_db_sheets.flatten_columns
SheetsName(base) ==
    LET parts == Split(base) IN
    normalize_name(Join([i \in DOMAIN parts |-> SheetsMapPart(parts[i])]))

\* the name of one column under a two-row header; top is the brand that
\* the forward fill assigns to the column (NULL when there is none)
SheetsMultiName(top, bottom) ==
    LET brand  == IF top # NULL THEN clean(top) ELSE <<>>
        metric == clean(bottom)
    IN  SheetsName(IF brand # <<>> THEN brand \o <<"_">> \o metric ELSE metric)

\* update_db_sheets.flatten_columns
SheetsFlatten(raw, h, multi, excel) ==
    IF multi
    THEN LET upper == [i \in DOMAIN raw[h] |->
                          LET u == StrTok(raw[h - 1][i]) IN IF \A j \in DOMAIN u : u[j] = " " THEN NULL ELSE u]
             ff    == Ffill(upper)
         IN  FlattenTail([i \in DOMAIN raw[h] |-> SheetsMultiName(ff[i], StrTok(raw[h][i]))])
    ELSE LET labels == IF excel THEN PandasHeader(raw[h])
                       ELSE [i \in DOMAIN raw[h] |-> StrTok(raw[h][i])]
         IN  FlattenTail([i \in DOMAIN raw[h] |-> SheetsName(clean(labels[i]))])

\* update_db_sheets.has_multi_header
has_multi_header(raw, h) ==
    IF h = 1 THEN FALSE
    ELSE LET upper == [i \in DOMAIN raw[h] |-> StrTok(raw[h - 1][i])]
             lower == [i \in DOMAIN raw[h] |-> StrTok(raw[h][i])]
         IN  /\ \E i \in DOMAIN upper : Strip(upper[i]) # <<>>
             /\ \E i \in DOMAIN upper : upper[i] # lower[i]

flatten_columns(imp, raw, h, multi, excel) ==
    IF imp = "create_update_db" THEN CreateFlatten(raw, h, multi)
    ELSE SheetsFlatten(raw, h, multi, excel)

(***************************************************************************)
(* Inputs of flatten_columns: a metric header row of FlatWidth columns,    *)
(* alone or under a brand row.                                             *)
(***************************************************************************)
FlatWidth == 3

BrandA == <<"Brand", " ", "A">>

\* a header cell of the source: the empty text is NaN in Excel
HeaderCell(ts, excel) == IF ts = <<>> /\ excel THEN NULL ELSE H(ts)

NoFlat == [called |-> FALSE, imp |-> "", excel |-> FALSE, multi |-> FALSE,
           upper |-> <<>>, lower |-> <<>>, names |-> <<>>, src |-> <<>>]

FlattenCall(imp, excel, multi, upper, lower) ==
    LET up  == [i \in DOMAIN upper |-> HeaderCell(upper[i], excel)]
        lo  == [i \in DOMAIN lower |-> HeaderCell(lower[i], excel)]
        raw == IF multi THEN <<up, lo>> ELSE <<lo>>
    IN  /\ ~fl.called
        /\ \E res \in {flatten_columns(imp, raw, Len(raw), multi, excel)} :
            fl' = [called |-> TRUE, imp |-> imp, excel |-> excel, multi |-> multi,
                   upper |-> upper, lower |-> lower, names |-> res.names, src |-> res.src]
        /\ UNCHANGED <<sheet, db, today, run, mk, nm, app, mn>>

FlatNext ==
    /\ ~fl.called
    /\ \E imp \in Importers, excel \in BOOLEAN, multi \in BOOLEAN :
        \E upper \in [1..FlatWidth -> {<<>>, BrandA, <<"Brand", " ", "B">>}],
           lower \in [1..FlatWidth -> {<<"Week">>, <<"Month">>, <<"Start">>, <<"End">>,
                                       <<"Sessions">>}] :
            /\ imp = "create_update_db" => excel
            /\ ~multi => \A i \in 1..FlatWidth : upper[i] = <<>>
            /\ FlattenCall(imp, excel, multi, upper, lower)

(***************************************************************************)
(* The database.  A table is [exists, cols, pk, rows]; rows is a bag: a    *)
(* function from the stored rows to the number of copies of each.          *)
(***************************************************************************)
SHEET_CONFIG ==
    << [name |-> "GUM | Monthly UV", table |-> "gum_monthly_uv", period_type |-> "month"],
       [name |-> "Chiesi | Weekly Sessions", table |-> "chiesi_weekly_sessions",
        period_type |-> "week"],
       [name |-> "Chiesi | Weekly Budget", table |-> "chiesi_weekly_budget",
        period_type |-> "week"],
       [name |-> "TTT | Weekly CPS", table |-> "ttt_weekly_cps", period_type |-> "week"] >>

\* f"tmp_{table}"
TmpOf(table) == "tmp_" \o table

TableNames ==
    LET tables == {SHEET_CONFIG[i].table : i \in DOMAIN SHEET_CONFIG}
    IN  tables \cup {TmpOf(t) : t \in tables}

EmptyBag == [r \in {} |-> 0]

NoTable == [exists |-> FALSE, cols |-> {}, pk |-> <<>>, rows |-> EmptyBag]

RECURSIVE BagSize(_)
BagSize(b) ==
    IF DOMAIN b = {} THEN 0
    ELSE LET r == CHOOSE x \in DOMAIN b : TRUE
         IN  b[r] + BagSize([x \in DOMAIN b \ {r} |-> b[x]])

KeyOf(row, pkeys) == [i \in DOMAIN pkeys |-> row[pkeys[i]]]

PKeys == <<ColPeriod, ColPeriodType>>

\* CREATE TABLE IF NOT EXISTS table (cols of df, PRIMARY KEY (pkeys))
build_table_if_absent(d, df, table, pkeys) ==
    IF d[table].exists THEN d
    ELSE [d EXCEPT ![table] =
            [exists |-> TRUE, cols |-> Range(df.cols), pk |-> pkeys, rows |-> EmptyBag]]

\* the row with the added columns, NULL in each of them
Widen(row, cols) == FcnOf([c \in cols |-> IF c \in DOMAIN row THEN row[c] ELSE NULL])

WidenBag(b, cols) ==
    [r \in {Widen(x, cols) : x \in DOMAIN b} |->
        LET xs == {x \in DOMAIN b : Widen(x, cols) = r}
        IN  BagSize([x \in xs |-> b[x]])]

EnsureNoColumns(d, df, table) == d

\* ALTER TABLE table ADD COLUMN col, for every column of df the table lacks
ensure_table_columns(d, df, table) ==
    LET cols == d[table].cols \cup Range(df.cols) IN
    [d EXCEPT ![table].cols = cols, ![table].rows = WidenBag(d[table].rows, cols)]

\* df.to_sql(tmp, if_exists="replace")
ToSql(d, df, tmp) ==
    [d EXCEPT ![tmp] =
        [exists |-> TRUE, cols |-> Range(df.cols), pk |-> <<>>, rows |-> [r \in Range(df.rows) |->
                        Cardinality({i \in DOMAIN df.rows : df.rows[i] = r})]]]

\* one row of INSERT ... ON CONFLICT (pk) DO UPDATE SET c = EXCLUDED.c
UpsertRowInsertOnly(rows, cols, pkeys, b) ==
    rows \cup {Widen(b, cols)}

UpsertRowKeepOld(rows, cols, pkeys, b) ==
    IF \E r \in rows : KeyOf(r, pkeys) = KeyOf(b, pkeys) THEN rows
    ELSE rows \cup {Widen(b, cols)}

\* the stored row is replaced by the batch row
UpsertRowReplace(rows, cols, pkeys, b) ==
    {r \in rows : KeyOf(r, pkeys) # KeyOf(b, pkeys)} \cup {Widen(b, cols)}

UpsertRow(rows, cols, pkeys, b) ==
    LET hit == {r \in rows : KeyOf(r, pkeys) = KeyOf(b, pkeys)} IN
    IF hit = {} THEN rows \cup {Widen(b, cols)}
    ELSE (rows \ hit)
         \cup {FcnOf([c \in cols |->
                          IF c \in DOMAIN b /\ c \notin Range(pkeys) THEN b[c] ELSE r[c]]) :
                 r \in hit}

RECURSIVE UpsertRows(_, _, _, _)
UpsertRows(rows, cols, pkeys, batch) ==
    IF batch = {} THEN rows
    ELSE LET b == CHOOSE x \in batch : TRUE
         IN  UpsertRows(UpsertRow(rows, cols, pkeys, b), cols, pkeys, batch \ {b})

\* the statement fails when it names a column the table lacks, when the
\* table has no unique constraint on the conflict columns, when a key column
\* is NULL, or when two rows of the batch have the same key
InsertFails(target, stage, pkeys) ==
    \/ ~target.exists
    \/ ~(stage.cols \subseteq target.cols)
    \/ target.pk # pkeys
    \/ Range(pkeys) \subseteq stage.cols
         /\ \E r \in DOMAIN stage.rows :
               \/ stage.rows[r] > 1
               \/ \E i \in DOMAIN pkeys : r[pkeys[i]] = NULL
               \/ \E q \in DOMAIN stage.rows : q # r /\ KeyOf(q, pkeys) = KeyOf(r, pkeys)

\* INSERT INTO table (cols) SELECT cols FROM tmp ON CONFLICT (pk) DO UPDATE
InsertOnConflict(d, table, tmp, pkeys) ==
    LET rows == UpsertRows(DOMAIN d[table].rows, d[table].cols, pkeys, DOMAIN d[tmp].rows) IN
    [d EXCEPT ![table].rows = [r \in rows |-> 1]]

\* a staging load that is committed on its own: an error leaves tmp behind
UpsertStagingCommitted(d, df, table, pkeys) ==
    IF df.rows = <<>> THEN [ok |-> TRUE, db |-> d]
    ELSE LET tmp == TmpOf(table)
             d1  == ToSql(d, df, tmp)
         IN  IF InsertFails(d1[table], d1[tmp], pkeys) THEN [ok |-> FALSE, db |-> d1]
             ELSE [ok |-> TRUE, db |-> [InsertOnConflict(d1, table, tmp, pkeys) EXCEPT ![tmp] = NoTable]]

\* upsert_dataframe: one transaction; an error rolls everything back
upsert_dataframe(d, df, table, pkeys) ==
    IF df.rows = <<>> THEN [ok |-> TRUE, db |-> d]
    ELSE LET tmp == TmpOf(table)
             d1  == ToSql(d, df, tmp)
         IN  IF InsertFails(d1[table], d1[tmp], pkeys) THEN [ok |-> FALSE, db |-> d]
             ELSE [ok |-> TRUE, db |-> [InsertOnConflict(d1, table, tmp, pkeys) EXCEPT ![tmp] = NoTable]]

(***************************************************************************)
(* process_sheet                                                           *)
(***************************************************************************)
\* the frame pandas reads under the flattened header
BuildFrame(raw, h, fr) ==
    [cols |-> fr.names,
     rows |-> SeqOf([r \in 1..(Len(raw) - h) |->
                 FcnOf([c \in Range(fr.names) |->
                     raw[h + r][fr.src[CHOOSE j \in DOMAIN fr.names : fr.names[j] = c]]])])]

\* df.replace("", pd.NA)
ReplaceEmpty(df) ==
    [cols |-> df.cols,
     rows |-> SeqOf([i \in DOMAIN df.rows |->
                 FcnOf([c \in DOMAIN df.rows[i] |->
                     IF df.rows[i][c] \in {H(<<>>), T(<<>>)} THEN NULL ELSE df.rows[i][c]])])]

\* no row is dropped
KeepNullPeriod(df) == df

\* df[df["period"].notna()]
DropNullPeriod(df) ==
    [cols |-> df.cols, rows |-> SelectSeq(df.rows, LAMBDA row : row[ColPeriod] # NULL)]

Failed(stage, d) == [ok |-> FALSE, stage |-> stage, db |-> d, df |-> NoFrame, snap |-> NULL]

\* df["period_type"] = period_type; df["snapshot_date"] = snap_date
Stamp(df, ptype, snap) ==
    SetCol(SetCol(df, ColPeriodType, [i \in DOMAIN df.rows |-> S(ptype)]),
           ColSnapshot, [i \in DOMAIN df.rows |-> snap])

\* the frame that process_sheet hands to mark_open_period
ReadFrame(imp, raw, h, fr, ptype, snap) ==
    LET df0 == BuildFrame(raw, h, fr)
        df1 == IF imp = "create_update_db" THEN df0 ELSE ReplaceEmpty(df0)
    IN  Stamp(DropNullPeriod(df1), ptype, snap)

\* build_table_if_absent, ensure_table_columns and upsert_dataframe on the
\* outcome mr of mark_open_period
StoreFrame(d, mr, table, snap) ==
    LET d1 == build_table_if_absent(d, mr.df, table, PKeys)
        d2 == ensure_table_columns(d1, mr.df, table)
        up == upsert_dataframe(d2, mr.df, table, PKeys)
    IN  IF ~mr.ok THEN Failed("mark", d)
        ELSE [ok |-> up.ok, stage |-> IF up.ok THEN "done" ELSE "upsert",
              db |-> up.db, df |-> mr.df, snap |-> snap]

\* the DDL ahead of the check for the period column
IngestFrameLateCheck(imp, cfg, raw, d, tday, snap, h, fr) ==
    IF ColPeriod \notin Range(fr.names)
    THEN Failed("period", ensure_table_columns(
                              build_table_if_absent(d, [cols |-> fr.names, rows |-> <<>>],
                                                    cfg.table, PKeys),
                              [cols |-> fr.names, rows |-> <<>>], cfg.table))
    ELSE StoreFrame(d, mark_open_period(imp, ReadFrame(imp, raw, h, fr, cfg.period_type, snap),
                                        tday),
                    cfg.table, snap)

\* process_sheet from the flattened header fr on
IngestFrame(imp, cfg, raw, d, tday, snap, h, fr) ==
    IF ColPeriod \notin Range(fr.names) THEN Failed("period", d)
    ELSE StoreFrame(d, mark_open_period(imp, ReadFrame(imp, raw, h, fr, cfg.period_type, snap),
                                        tday),
                    cfg.table, snap)

\* process_sheet of importer imp on the raw sheet; stage names the step
\* that raised when ok is FALSE
process_sheet(imp, excel, cfg, raw, d, tday, now) ==
    LET h     == find_header_row(raw)
        multi == IF imp = "create_update_db"
                 THEN cfg.name \in {"Chiesi | Weekly Sessions", "Chiesi | Weekly Budget"}
                 ELSE has_multi_header(raw, h)
    IN  IF h = 0 THEN Failed("header", d)
        ELSE IF multi /\ h = 1 THEN Failed("read", d)
        ELSE IngestFrame(imp, cfg, raw, d, tday, extract_snapshot_date(raw, tday, now), h,
                         flatten_columns(imp, raw, h, multi, excel))

(***************************************************************************)
(* Ingest runs.  One behaviour follows one sheet of SHEET_CONFIG, imported *)
(* again and again by one importer while the days pass.                    *)
(***************************************************************************)
MaxRows == 2

MaxTicks == 1

MaxRuns == 2

\* Sunday 2024-02-04, the last day of ISO week 5
FirstDay == DaysBefore(2) + 4

\* <<period, start, end>> of the periods of a sheet
IngestSpans(ptype) ==
    IF ptype = "week"
    THEN << <<I(5), D(29), D(35)>>, <<I(6), D(36), D(42)>> >>
    ELSE << <<I(1), D(1), D(31)>>, <<I(2), D(32), D(60)>> >>

Tail5(extra, v) == IF extra THEN <<v>> ELSE <<>>

\* the data rows: the first period with either value, the second with one,
\* a row with no period, and a row whose period cell is the empty string
IngestRows(ptype, extra) ==
    LET sp == IngestSpans(ptype) IN
    { sp[1] \o <<I(10)>> \o Tail5(extra, I(7)),
      sp[1] \o <<I(20)>> \o Tail5(extra, I(7)),
      sp[2] \o <<I(10)>> \o Tail5(extra, I(7)),
      <<NULL, NULL, NULL, I(10)>> \o Tail5(extra, I(7)),
      <<T(<<>>), sp[2][2], sp[2][3], I(10)>> \o Tail5(extra, I(7)) }

HeaderRow(ptype, extra) ==
    <<H(<<IF ptype = "week" THEN "Week" ELSE "Month">>), H(<<"Start">>), H(<<"End">>),
      H(<<"Sessions">>)>> \o Tail5(extra, H(<<"Clicks">>))

BlankRow(excel, extra) ==
    [i \in 1..(IF extra THEN 5 ELSE 4) |-> IF excel THEN NULL ELSE H(<<>>)]

CaptionRow(frags, excel, extra) == [BlankRow(excel, extra) EXCEPT ![1] = C(frags)]

\* the rows above the header row: a caption with two dates and a blank row,
\* a caption with a dd/mm/yyyy date, a brand row
Tops(excel) ==
    { <<CaptionRow(<< <<"txt">>, <<"euro", 27>>, <<"iso", 20>> >>, excel, FALSE),
        BlankRow(excel, FALSE)>>,
      <<CaptionRow(<< <<"euro", 20>> >>, excel, FALSE)>>,
      <<[BlankRow(excel, FALSE) EXCEPT ![4] = H(BrandA)]>> }

Batches(ptype, extra, n) == UNION {[1..k -> IngestRows(ptype, extra)] : k \in 0..n}

\* the contents of the sheet: up to MaxRows rows under a bare header, and
\* up to MaxRows - 1 rows under the other layouts; a sheet with no header
\* row; a sheet with two rows that qualify as header row.  An empty string
\* is a cell of a Google sheet only: read_excel reads it as NaN
IngestSheets(ptype, excel) ==
    LET sheets ==
            {<<HeaderRow(ptype, FALSE)>> \o data : data \in Batches(ptype, FALSE, MaxRows)}
            \cup {<<HeaderRow(ptype, TRUE)>> \o data :
                    data \in Batches(ptype, TRUE, MaxRows - 1)}
            \cup {top \o <<HeaderRow(ptype, FALSE)>> \o data :
                    top \in Tops(excel), data \in Batches(ptype, FALSE, MaxRows - 1)}
            \cup {<<CaptionRow(<< <<"txt">> >>, excel, FALSE)>> \o data :
                    data \in Batches(ptype, FALSE, 1)}
            \cup {<<[HeaderRow(ptype, FALSE) EXCEPT
                       ![1] = H(<<" ", IF ptype = "week" THEN "week" ELSE "month", " ">>)],
                     HeaderRow(ptype, FALSE)>>}
    IN  {raw \in sheets : excel => \A i \in DOMAIN raw : raw[i][1] # T(<<>>)}

\* the last run: its sheet content, the target table before it, its outcome,
\* and the keys that the successful runs so far have ingested
NoRun == [called |-> FALSE, n |-> 0, raw |-> <<>>, before |-> NoTable, ok |-> FALSE,
          stage |-> "", df |-> NoFrame, snap |-> NULL, today |-> 0, keys |-> {}]

\* nothing has been called yet: no extract_number call, a browser session
\* that has not run app.py (its session_state is empty, the cache of the
\* loaders is empty), main before its first sheet (log and db0 keep
\* the calls it has made and the database it started on)
Idle ==
    [nm  |-> [called |-> FALSE, style |-> "", txt |-> <<>>, want |-> 0, out |-> NULL],
     app |-> [hasKey |-> FALSE, authenticated |-> FALSE, pending |-> FALSE,
              clicked |-> FALSE, password |-> "", selected |-> "", day |-> 0,
              ran |-> FALSE, failed |-> FALSE, view |-> {}, cache |-> <<>>],
     mn  |-> [k |-> 1, status |-> "running", printed |-> FALSE, pass |-> 1,
              log |-> <<>>, db0 |-> [t \in TableNames |-> NoTable]]]

Init ==
    /\ sheet \in {[cfg |-> SHEET_CONFIG[i], imp |-> imp, excel |-> excel] :
                    i \in {1, 2}, imp \in Importers, excel \in BOOLEAN}
    /\ sheet.imp = "create_update_db" => sheet.excel
    /\ db = [t \in TableNames |-> NoTable]
    /\ today = FirstDay
    /\ run = NoRun
    /\ mk = NoMark
    /\ fl = NoFlat
    /\ nm = Idle.nm
    /\ app = Idle.app
    /\ mn = Idle.mn

\* one run of process_sheet on the current content of the sheet; the runs
\* of a day are made one after the other, each at a later time of day
ProcessSheet(raw) ==
    /\ run.n < MaxRuns
    /\ \E res \in {process_sheet(sheet.imp, sheet.excel, sheet.cfg, raw, db, today,
                                   run.n + 1)} :
        /\ db' = res.db
        /\ run' = [called |-> TRUE, n |-> run.n + 1, raw |-> raw,
                   before |-> db[sheet.cfg.table], ok |-> res.ok, stage |-> res.stage,
                   df |-> res.df, snap |-> res.snap, today |-> today,
                   keys |-> IF res.ok
                            THEN run.keys \cup {KeyOf(b, PKeys) : b \in Range(res.df.rows)}
                            ELSE run.keys]
        /\ UNCHANGED <<sheet, today, mk, fl, nm, app, mn>>

\* midnight passes
Tick ==
    /\ today < FirstDay + MaxTicks
    /\ today' = today + 1
    /\ UNCHANGED <<sheet, db, run, mk, fl, nm, app, mn>>

Next ==
    \/ \E raw \in IngestSheets(sheet.cfg.period_type, sheet.excel) : ProcessSheet(raw)
    \/ Tick

Spec == Init /\ [][Next]_vars

InitPure ==
    /\ sheet = [cfg |-> SHEET_CONFIG[1], imp |-> "update_db_sheets", excel |-> FALSE]
    /\ db = [t \in TableNames |-> NoTable]
    /\ today = FirstDay
    /\ run = NoRun
    /\ mk = NoMark
    /\ fl = NoFlat
    /\ nm = Idle.nm
    /\ app = Idle.app
    /\ mn = Idle.mn

SpecMark == InitPure /\ [][MarkNext]_vars

SpecFlat == InitPure /\ [][FlatNext]_vars

(***************************************************************************)
(* Inputs of extract_number: a number with up to three decimals, written   *)
(* with ',' for the thousands and '.' for the decimals (style "us") or the *)
(* other way round (style "eu"), with or without a sign and a currency.    *)
(***************************************************************************)
\* the text of the number: ip and, when grouped, the group 234 make the
\* integer part, frac the decimals
NumText(style, cur, neg, ip, grouped, frac) ==
    LET thousands == IF style = "us" THEN "," ELSE "."
        decimal   == IF style = "us" THEN "." ELSE ","
    IN  (IF cur THEN <<"E", " ">> ELSE <<>>)
        \o (IF neg THEN <<"-">> ELSE <<>>)
        \o ip
        \o (IF grouped THEN <<thousands, "2", "3", "4">> ELSE <<>>)
        \o (IF frac = <<>> THEN <<>> ELSE <<decimal>> \o frac)

\* the most digits of a text handed to extract_number
MaxDigits == 7

\* one call of extract_number: on a number written in one of the two
\* locales, or on any text put together from digits, separators, signs and
\* characters that the pattern strips (str(s) accepts every cell)
NumCall ==
    /\ ~nm.called
    /\ \/ \E style \in {"us", "eu"}, cur \in BOOLEAN, neg \in BOOLEAN, grouped \in BOOLEAN,
             ip \in {<<"1">>, <<"1", "2">>, <<"1", "2", "3">>},
             frac \in {<<>>, <<"5">>, <<"5", "6">>, <<"5", "6", "7">>} :
              LET txt  == NumText(style, cur, neg, ip, grouped, frac)
                  whole == IF grouped THEN 1000 * NatVal(ip) + 234 ELSE NatVal(ip)
                  mag  == 1000 * whole + NatVal(SubSeq(frac \o <<"0", "0", "0">>, 1, 3))
              IN  nm' = [called |-> TRUE, style |-> style, txt |-> txt,
                         want |-> IF neg THEN 0 - mag ELSE mag, out |-> extract_number(txt)]
       \/ LET pieces == {<<>>, <<"1">>, <<"2", "0", "0">>, <<",">>, <<".">>, <<"-">>, <<"E", " ">>}
          IN  \E p1 \in pieces, p2 \in pieces, p3 \in pieces, p4 \in pieces, p5 \in pieces :
                  LET txt == p1 \o p2 \o p3 \o p4 \o p5
                  IN  /\ Len(SelectSeq(txt, LAMBDA c : c \in DigitSet)) <= MaxDigits
                      /\ nm' = [called |-> TRUE, style |-> "any", txt |-> txt,
                                want |-> 0, out |-> extract_number(txt)]
    /\ UNCHANGED <<sheet, db, today, run, mk, fl, app, mn>>

SpecNum == InitPure /\ [][NumCall]_vars

(***************************************************************************)
(* app.py.  One step is one script run of a browser session: the password  *)
(* gate, then the loader and the renderer of the selected brand.  The      *)
(* loaders are cached by st.cache_data with no expiry, so the frame a      *)
(* loader returned once is the frame every later run receives.  A frame is *)
(* the set of its rows, each reduced to the two columns the filters read.  *)
(***************************************************************************)
PASSWORD == "testftam"

\* conf["loader"](): load_budget_data or load_sessions_data, uncached.  The
\* query raises when the table is missing, the filter when it has no
\* start_date; to_numeric(...).fillna(0).astype(int) of the period; a row
\* with no start_date compares False
loader(selected, d, tday) ==
    LET table == IF selected = "Chiesi [Budget]" THEN "chiesi_weekly_budget"
                 ELSE "chiesi_weekly_sessions"
        rows  == {r \in DOMAIN d[table].rows : r[ColPeriodType] = S("week")}
    IN  IF ~d[table].exists \/ ~({ColPeriod, ColPeriodType, ColStart} \subseteq d[table].cols)
        THEN [ok |-> FALSE, rows |-> {}]
        ELSE [ok |-> TRUE,
              rows |-> {[period |-> IF Tag(r[ColPeriod]) = "i" THEN r[ColPeriod][2] ELSE 0,
                         start_date |-> r[ColStart]] :
                        r \in {q \in rows : /\ Tag(q[ColStart]) = "d"
                                             /\ q[ColStart][2] <= tday}}]

\* conf["renderer"](df): df[df["period"] <= current_week] reaches the views
renderer(rows, tday) == {r \in rows : r.period <= IsoWeek(tday)}

\* a gate that lets any click through
CheckPasswordAnyClick(hasKey, authenticated, clicked, password) ==
    IF hasKey /\ authenticated THEN [authenticated |-> TRUE, stop |-> FALSE]
    ELSE [authenticated |-> clicked, stop |-> TRUE]

\* check_password(): the value it leaves in session_state.authenticated,
\* and whether it ends the run (st.rerun() or st.stop())
check_password(hasKey, authenticated, clicked, password) ==
    IF hasKey /\ authenticated THEN [authenticated |-> TRUE, stop |-> FALSE]
    ELSE [authenticated |-> clicked /\ password = PASSWORD, stop |-> TRUE]

\* one script run.  The button exists only where the last run drew the gate;
\* st.rerun() ends the run and starts the next one with no click
AppRun(clicked, password, selected) ==
    LET hit == selected \in DOMAIN app.cache IN
    /\ clicked => app.hasKey /\ ~app.authenticated
    /\ app.pending => ~clicked
    /\ \E gate \in {check_password(app.hasKey, app.authenticated, clicked, password)},
          res \in {IF hit THEN [ok |-> TRUE, rows |-> app.cache[selected]]
                   ELSE loader(selected, db, today)} :
         app' = IF gate.stop
                THEN [app EXCEPT !.hasKey = TRUE,
                                 !.authenticated = gate.authenticated,
                                 !.pending = gate.authenticated,
                                 !.clicked = clicked, !.password = password,
                                 !.selected = selected, !.day = today,
                                 !.ran = FALSE, !.failed = FALSE, !.view = {}]
                ELSE [app EXCEPT !.pending = FALSE,
                                 !.clicked = FALSE, !.password = "",
                                 !.selected = selected, !.day = today,
                                 !.ran = TRUE, !.failed = ~res.ok,
                                 !.view = IF res.ok THEN renderer(res.rows, today) ELSE {},
                                 !.cache = IF res.ok /\ ~hit
                                           THEN (selected :> res.rows) @@ app.cache
                                           ELSE app.cache]
    /\ UNCHANGED <<sheet, db, today, run, mk, fl, nm, mn>>

\* another browser session: an empty session_state, the same server and cache
NewSession ==
    /\ app.hasKey
    /\ app' = [Idle.app EXCEPT !.cache = app.cache]
    /\ UNCHANGED <<sheet, db, today, run, mk, fl, nm, mn>>

\* the database as one import of a Chiesi sheet left it
InitApp ==
    /\ sheet \in {[cfg |-> SHEET_CONFIG[i], imp |-> "update_db_sheets", excel |-> FALSE] :
                    i \in {2, 3}}
    /\ db \in {process_sheet(sheet.imp, sheet.excel, sheet.cfg,
                              <<HeaderRow("week", FALSE)>> \o data,
                              [t \in TableNames |-> NoTable], FirstDay, 1).db :
                 data \in Batches("week", FALSE, MaxRows)}
    /\ today = FirstDay
    /\ run = NoRun
    /\ mk = NoMark
    /\ fl = NoFlat
    /\ nm = Idle.nm
    /\ app = Idle.app
    /\ mn = Idle.mn

SpecApp ==
    InitApp /\ [][\/ \E clicked \in BOOLEAN, password \in {PASSWORD, "", "testftam "},
                       selected \in {"Chiesi [Budget]", "Chiesi [Sessions]"} :
                        AppRun(clicked, password, selected)
                  \/ NewSession
                  \/ Tick]_vars

(***************************************************************************)
(* main.  One step is one pass of the loop over SHEET_CONFIG: process_sheet *)
(* on the sheet of the entry, each of its transactions committed as it     *)
(* ends.  An exception of process_sheet leaves main; the line after the    *)
(* loop prints the completion message.                                     *)
(***************************************************************************)
MaxMains == 2

\* a loop that catches the exception and goes on with the next sheet
MainStepRecover(raw) ==
    /\ mn.status = "running"
    /\ \E res \in {process_sheet(sheet.imp, sheet.excel, SHEET_CONFIG[mn.k], raw, db, today,
                                   Len(SHEET_CONFIG) * mn.pass + mn.k)} :
        /\ db' = res.db
        /\ mn' = [mn EXCEPT !.k = IF mn.k < Len(SHEET_CONFIG) THEN mn.k + 1 ELSE mn.k,
                            !.status = IF mn.k = Len(SHEET_CONFIG) THEN "done" ELSE "running",
                            !.printed = mn.k = Len(SHEET_CONFIG),
                            !.log = Append(mn.log, [k |-> mn.k, ok |-> res.ok,
                                                    after |-> res.db[SHEET_CONFIG[mn.k].table]])]
    /\ UNCHANGED <<sheet, today, run, mk, fl, nm, app>>

\* for cfg in SHEET_CONFIG: process_sheet(...), and after the last one print
MainStep(raw) ==
    /\ mn.status = "running"
    /\ \E res \in {process_sheet(sheet.imp, sheet.excel, SHEET_CONFIG[mn.k], raw, db, today,
                                   Len(SHEET_CONFIG) * mn.pass + mn.k)} :
        /\ db' = res.db
        /\ mn' = [mn EXCEPT !.k = IF res.ok /\ mn.k < Len(SHEET_CONFIG) THEN mn.k + 1
                                  ELSE mn.k,
                            !.status = IF ~res.ok THEN "failed"
                                       ELSE IF mn.k = Len(SHEET_CONFIG) THEN "done"
                                       ELSE "running",
                            !.printed = res.ok /\ mn.k = Len(SHEET_CONFIG),
                            !.log = Append(mn.log, [k |-> mn.k, ok |-> res.ok,
                                                    after |-> res.db[SHEET_CONFIG[mn.k].table]])]
    /\ UNCHANGED <<sheet, today, run, mk, fl, nm, app>>

\* the importer is started again on the database the last start left
MainStart ==
    /\ mn.status # "running"
    /\ mn.pass < MaxMains
    /\ mn' = [Idle.mn EXCEPT !.pass = mn.pass + 1, !.db0 = db]
    /\ UNCHANGED <<sheet, db, today, run, mk, fl, nm, app>>

\* the sheets of a start: a sheet with no header row; one row of the first
\* period under the header, also with a fifth column or under a brand row;
\* two rows of the first period
SpecMain ==
    (Init /\ sheet.cfg = SHEET_CONFIG[1])
    /\ [][\/ \E raw \in {r \in IngestSheets(SHEET_CONFIG[mn.k].period_type, sheet.excel) :
                            \/ Len(r) = 1 /\ Tag(r[1][1]) = "c"
                            \/ /\ r[Len(r)][1] \in {I(1), I(5)}
                               /\ r[Len(r)][4] = I(20)
                               /\ \/ Len(r) = 2
                                  \/ Len(r) = 3 /\ r[1][4] = H(BrandA)
                                  \/ Len(r) = 3 /\ r[2][4] = I(10) /\ r[2][1] = r[3][1]} :
                    MainStep(raw)
           \/ MainStart]_vars

(***************************************************************************)
(* Properties of the ingest runs (Spec)                                    *)
(***************************************************************************)
\* the rows of the target table, and the rows it held before the last run
Stored == DOMAIN db[sheet.cfg.table].rows

StoredBefore == DOMAIN run.before.rows

\* the rows that the last run handed to upsert_dataframe
Batch == Range(run.df.rows)

SameKey(r, q) == KeyOf(r, PKeys) = KeyOf(q, PKeys)

\* the rows r and b both have the sessions column, with different values
OtherSessions(r, b) ==
    /\ ColSessions \in DOMAIN r \cap DOMAIN b
    /\ r[ColSessions] # b[ColSessions]

\* C1: a row stored with is_final = true is still stored, with the same
\* value in every one of its columns, after a successful ingest run.
C1_ClosedImmutable ==
    run.ok =>
        \A r \in StoredBefore :
            r[ColIsFinal] = B(TRUE) =>
                \E q \in Stored : \A c \in DOMAIN r : q[c] = r[c]

\* C2: after a successful run, for every batch row whose key was stored with
\* is_final = false, the stored row of that key holds the batch row's value
\* in every column of the batch.
C2_OpenOverwritten ==
    run.ok =>
        \A b \in Batch :
            (\E r \in StoredBefore : SameKey(r, b) /\ r[ColIsFinal] = B(FALSE)) =>
                /\ \E q \in Stored : SameKey(q, b)
                /\ \A q \in Stored : SameKey(q, b) => \A c \in DOMAIN b : q[c] = b[c]

\* a successful run met an open stored row of a batch key with another value
C2_Witness ==
    /\ run.ok
    /\ \E b \in Batch, r \in StoredBefore :
          /\ SameKey(r, b)
          /\ r[ColIsFinal] = B(FALSE)
          /\ OtherSessions(r, b)

\* C3: the table holds one row per key (period, period_type), and its keys
\* are exactly the keys ingested so far: a run adds a row for each batch key
\* that was absent and no row for a key that was present.
C3_OneRowPerKey ==
    LET rows == db[sheet.cfg.table].rows IN
    /\ \A r \in DOMAIN rows : rows[r] = 1
    /\ \A r, q \in DOMAIN rows : SameKey(r, q) => r = q
    /\ {KeyOf(r, PKeys) : r \in DOMAIN rows} = run.keys
    /\ BagSize(rows) = Cardinality(run.keys)

\* a successful run brought one key that was stored, with another value, and
\* one that was not
C3_Witness ==
    /\ run.ok
    /\ \E b \in Batch, r \in StoredBefore : SameKey(r, b) /\ OtherSessions(r, b)
    /\ \E b \in Batch : \A r \in StoredBefore : ~SameKey(r, b)

\* C8: when process_sheet reaches upsert_dataframe the target table exists
\* and has every column of the batch, and a run never removes a column that
\* the table had before it.
C8_SchemaEvolution ==
    LET t == db[sheet.cfg.table] IN
    /\ run.stage \in {"upsert", "done"} => t.exists /\ Range(run.df.cols) \subseteq t.cols
    /\ run.before.cols \subseteq t.cols

\* a successful run added a column to a table that held rows
C8_Witness ==
    /\ run.ok
    /\ StoredBefore # {}
    /\ run.before.cols # db[sheet.cfg.table].cols
    /\ Batch # {}

\* the dates of one kind (iso or euro) that the first column of the first
\* two rows of the sheet shows
CaptionDates(raw, kind) ==
    LET frags == UNION {Range(DateFrags(raw[i][1])) : i \in 1..(IF Len(raw) < 2 THEN Len(raw) ELSE 2)}
    IN  {f[2] : f \in {g \in frags : g[1] = kind}}

HeaderRows(raw) ==
    {i \in DOMAIN raw :
        /\ Tag(raw[i][1]) = "h"
        /\ \E w \in {"week", "month"}, cased \in BOOLEAN, padded \in BOOLEAN :
              raw[i][1][2] =
                  LET word == IF cased THEN (IF w = "week" THEN "Week" ELSE "Month") ELSE w
                  IN  IF padded THEN <<" ", word, " ">> ELSE <<word>>}

\* one more run of process_sheet has ended
RunStep == run'.n = run.n + 1

\* C11: find_header_row returns the smallest index of a row whose first
\* cell, trimmed and lower-cased, is 'week' or 'month'; when there is none
\* it raises, process_sheet stops there and the whole database is as before.
C11_HeaderDetection ==
    [][RunStep =>
          LET hs == HeaderRows(run'.raw) IN
          /\ hs # {} =>
                /\ find_header_row(run'.raw) \in hs
                /\ \A i \in hs : find_header_row(run'.raw) <= i
                /\ run'.stage # "header"
          /\ hs = {} =>
                /\ find_header_row(run'.raw) = 0
                /\ run'.stage = "header" /\ ~run'.ok
                /\ db' = db]_vars

\* a run on a sheet with no header row met a table that held rows
C11_Witness ==
    /\ run.called /\ run.stage = "header"
    /\ HeaderRows(run.raw) = {}
    /\ StoredBefore # {}

(***************************************************************************)
(* Properties of mark_open_period (SpecMark)                               *)
(***************************************************************************)
MarkDone == mk.called /\ mk.ok

\* row i of the call is the period that today falls in
RowCurrent(i) ==
    LET row == mk.in.rows[i] IN
    IF mk.dated
    THEN /\ row[ColStart] # NULL /\ row[ColEnd] # NULL
         /\ row[ColStart][2] <= mk.today /\ mk.today <= row[ColEnd][2]
    ELSE Milli(row[ColPeriod])
           = 1000 * (IF mk.ptype = "week" THEN IsoWeek(mk.today) ELSE MonthOf(mk.today))

\* the *_forecast columns of the result
ForecastCols == {c \in Range(mk.out.cols) : EndsWith(c, <<"_", "forecast">>)}

SessionsForecast == ForecastOf(ColSessions)

\* C4: in both importers a row with start_date <= today <= end_date gets
\* is_final = false, the day end_date = today included, and a row with
\* end_date < today gets is_final = true.
C4_OpenClassified ==
    MarkDone /\ mk.dated =>
        \A i \in DOMAIN mk.out.rows :
            LET row == mk.in.rows[i] IN
            /\ RowCurrent(i) => mk.out.rows[i][ColIsFinal] = B(FALSE)
            /\ row[ColEnd] # NULL /\ row[ColEnd][2] < mk.today
                 => mk.out.rows[i][ColIsFinal] = B(TRUE)

\* C5: in both importers a row with a non-null value in a *_forecast column
\* has is_final = false and is the current period, and a row with
\* is_final = true has null in every *_forecast column.
C5_ForecastOnlyOpen ==
    MarkDone =>
        \A i \in DOMAIN mk.out.rows : \A c \in ForecastCols :
            LET row == mk.out.rows[i] IN
            /\ row[c] # NULL => row[ColIsFinal] = B(FALSE) /\ RowCurrent(i)
            /\ row[ColIsFinal] = B(TRUE) => row[c] = NULL

\* a result with a forecast in one row and is_final = true in another
C5_Witness ==
    /\ MarkDone
    /\ \E i \in DOMAIN mk.out.rows : mk.out.rows[i][SessionsForecast] # NULL
    /\ \E i \in DOMAIN mk.out.rows : mk.out.rows[i][ColIsFinal] = B(TRUE)

\* C6: in both importers a row with start_date <= today <= end_date and a
\* non-null metric gets a non-null forecast of it, the first and the last
\* day of the period included.
C6_ForecastEveryDay ==
    MarkDone /\ mk.dated =>
        \A i \in DOMAIN mk.out.rows :
            RowCurrent(i) /\ mk.out.rows[i][ColSessions] # NULL
                => mk.out.rows[i][SessionsForecast] # NULL

\* the days of the period of row i that have passed, today included
ElapsedDays(i) ==
    IF mk.dated THEN mk.today - mk.in.rows[i][ColStart][2] + 1
    ELSE IF mk.ptype = "week" THEN Weekday(mk.today) + 1 ELSE DayOfMonth(mk.today)

\* 7 for a week, the days of the calendar month otherwise
TotalDays(i) ==
    IF mk.ptype = "week" THEN 7
    ELSE IF mk.dated THEN MonthRange(MonthOf(mk.in.rows[i][ColStart][2]))
    ELSE MonthRange(MonthOf(mk.today))

\* the nearest integer to num/den (den > 0), a tie going to the even one
RoundHalfEven(num, den) ==
    LET q == num \div den
        r == num % den
    IN  IF 2 * r < den THEN q
        ELSE IF 2 * r > den THEN q + 1
        ELSE IF q % 2 = 0 THEN q ELSE q + 1

\* row i is a current row of update_db_sheets with a metric value
Extrapolated(i) ==
    /\ MarkDone
    /\ mk.imp = "update_db_sheets"
    /\ RowCurrent(i)
    /\ mk.out.rows[i][ColSessions] # NULL

\* v * total_days and elapsed_days, both in thousandths
ProRataNum(i) == Milli(mk.out.rows[i][ColSessions]) * TotalDays(i)

ProRataDen(i) == 1000 * ElapsedDays(i)

KeyName(text) ==
    CASE text = <<"Week">>  -> ColPeriod
      [] text = <<"Month">> -> ColPeriod
      [] text = <<"Start">> -> ColStart
      [] text = <<"End">>   -> ColEnd
      [] OTHER              -> NoCol

\* the brand cell that applies to column i: the last one at or before it
BrandAt(upper, i) ==
    LET js == {j \in 1..i : upper[j] # <<>>} IN
    IF js = {} THEN <<>> ELSE upper[CHOOSE j \in js : \A k \in js : k <= j]

BrandPrefix(brand) ==
    IF brand = BrandA THEN <<"brand", "_", "a">> ELSE <<"brand", "_", "b">>

\* C10: under a brand row, in both importers, the week, start and end
\* columns are named period, start_date and end_date wherever they stand
\* and whatever is above them, and a metric column that a brand applies to
\* is named <brand>_<metric>.
C10_TwoLevelNames ==
    fl.called /\ fl.multi =>
        \A j \in DOMAIN fl.names :
            LET i     == fl.src[j]
                brand == BrandAt(fl.upper, i)
            IN  IF KeyName(fl.lower[i]) # NoCol
                THEN fl.names[j] = KeyName(fl.lower[i])
                ELSE brand # <<>> =>
                       fl.names[j] = BrandPrefix(brand) \o <<"_", "sessions">>

\* the names that flatten_columns computes for the source columns, before
\* it renames period_if_absent and drops columns
FlatRawNames ==
    LET up == [i \in DOMAIN fl.upper |-> HeaderCell(fl.upper[i], fl.excel)]
        lo == [i \in DOMAIN fl.lower |-> HeaderCell(fl.lower[i], fl.excel)]
        ff == Ffill([i \in DOMAIN lo |->
                        LET u == StrTok(up[i])
                        IN  IF \A j \in DOMAIN u : u[j] = " " THEN NULL ELSE u])
        two == PandasMultiHeader(up, lo)
        one == PandasHeader(lo)
    IN  CASE fl.imp = "create_update_db" /\ fl.multi ->
                [i \in DOMAIN lo |-> CreateMultiName(up[i], two[i])]
          [] fl.imp = "create_update_db" /\ ~fl.multi ->
                [i \in DOMAIN lo |-> standardize(clean(one[i]))]
          [] fl.imp # "create_update_db" /\ fl.multi ->
                [i \in DOMAIN lo |-> SheetsMultiName(ff[i], StrTok(lo[i]))]
          [] OTHER ->
                [i \in DOMAIN lo |->
                    SheetsName(clean(IF fl.excel THEN one[i] ELSE StrTok(lo[i])))]

\* the names once period_if_absent stands in for a missing period
FlatRenamed(raw) ==
    [i \in DOMAIN raw |->
        IF raw[i] = ColPeriodIfAbsent /\ ColPeriod \notin Range(raw) THEN ColPeriod ELSE raw[i]]

\* C22: flatten_columns returns pairwise distinct column names.  Of the
\* source columns that come to the same name only the leftmost is kept, at
\* most one column is named period, none is named period_if_absent, and
\* every other name of a source column is the name of a returned column.
C22_DistinctNames ==
    fl.called =>
        \E renamed \in {FlatRenamed(FlatRawNames)} :
            /\ \A j, k \in DOMAIN fl.names : j # k => fl.names[j] # fl.names[k]
            /\ Cardinality({j \in DOMAIN fl.names : fl.names[j] = ColPeriod}) <= 1
            /\ ColPeriodIfAbsent \notin Range(fl.names)
            /\ \A j \in DOMAIN fl.names :
                  /\ fl.names[j] = renamed[fl.src[j]]
                  /\ \A i \in 1..(fl.src[j] - 1) : renamed[i] # fl.names[j]
            /\ \A i \in DOMAIN renamed :
                  renamed[i] # ColPeriodIfAbsent => renamed[i] \in Range(fl.names)

\* two Month columns and no Week column in create_update_db: both come to
\* period_if_absent, and the left one is returned as period
C22_Witness ==
    /\ fl.called /\ fl.imp = "create_update_db"
    /\ \E i, k \in DOMAIN fl.lower :
          /\ i < k
          /\ fl.lower[i] = <<"Month">> /\ fl.lower[k] = <<"Month">>
          /\ <<"Week">> \notin Range(fl.lower)
          /\ \E j \in DOMAIN fl.names : fl.names[j] = ColPeriod /\ fl.src[j] = i
          /\ k \notin Range(fl.src)

(***************************************************************************)
(* Properties of extract_number (SpecNum)                                  *)
(***************************************************************************)
\* the separators "," and "." of the text, in order
Separators(txt) == SelectSeq(txt, LAMBDA c : c \in {",", "."})

\* the characters that follow the first separator of the text
AfterFirstSeparator(txt) ==
    LET p == CHOOSE i \in DOMAIN txt :
                 txt[i] \in {",", "."} /\ \A j \in 1..(i - 1) : txt[j] \notin {",", "."}
    IN  SubSeq(txt, p + 1, Len(txt))

\* C12: extract_number returns the number that the text shows, in either
\* locale: with both separators the thousands mark is dropped and the other
\* one is the decimal mark; a lone separator followed by exactly three
\* characters is a thousands mark, any other lone separator a decimal mark.
C12_LocaleParsing ==
    nm.called /\ nm.style \in {"us", "eu"} =>
        LET seps == Separators(nm.txt) IN
        IF Len(seps) = 1 /\ Len(AfterFirstSeparator(nm.txt)) = 3
        THEN \* read as thousands mark: 12.567 is 12567
             \E k \in {1, 1000} : Milli(nm.out) = k * nm.want /\ Milli(nm.out) % 1000 = 0
        ELSE nm.out = F(nm.want)

(***************************************************************************)
(* Properties of app.py (SpecApp)                                          *)
(***************************************************************************)
\* the stored rows of the selected brand whose period has begun: start_date
\* is not after the given day and the week number is not after its ISO week
ElapsedRows(day) ==
    LET table == IF app.selected = "Chiesi [Budget]" THEN "chiesi_weekly_budget"
                 ELSE "chiesi_weekly_sessions"
    IN  {r \in DOMAIN db[table].rows :
            /\ r[ColPeriodType] = S("week")
            /\ Tag(r[ColStart]) = "d" /\ r[ColStart][2] <= day
            /\ Tag(r[ColPeriod]) = "i" /\ r[ColPeriod][2] <= IsoWeek(day)}

\* C13: dashboards show only elapsed periods.  Every row that reaches the
\* views in a script run has start_date <= today and period <= the current
\* ISO week, and every stored row of an elapsed period reaches the views.
C13_OnlyElapsed ==
    (app.ran /\ ~app.failed /\ app.day = today) =>
        /\ \A r \in app.view : /\ Tag(r.start_date) = "d" /\ r.start_date[2] <= today
                                /\ r.period <= IsoWeek(today)
        /\ \A q \in ElapsedRows(today) :
              [period |-> q[ColPeriod][2], start_date |-> q[ColStart]] \in app.view

\* C14: the password gate.  The loader, the renderer and the chat run only in
\* a script run that starts with authenticated true; authenticated becomes
\* true only in a run where Entra was clicked with the password equal to
\* PASSWORD, a click with another password leaves it false, and within one
\* session it never goes back to false.
C14_PasswordGate ==
    [][/\ app'.ran => app.hasKey /\ app.authenticated /\ app'.authenticated
       /\ (~app.authenticated /\ app'.authenticated) =>
              app'.clicked /\ app'.password = PASSWORD
       /\ (app'.clicked /\ app'.password # PASSWORD) => ~app'.authenticated
       /\ (app.authenticated /\ app'.hasKey) => app'.authenticated]_vars

\* a session that passed the gate and was shown a dashboard with rows
C14_Witness == app.ran /\ app.authenticated /\ app.view # {}

(***************************************************************************)
(* Properties of the stored rows (Spec)                                    *)
(***************************************************************************)
\* the sheet rows of the last run that have no period: a null cell, or the
\* empty string of a Google sheet
NoPeriodRows ==
    {i \in (find_header_row(run.raw) + 1)..Len(run.raw) : run.raw[i][1] \in {NULL, T(<<>>)}}

\* C15: the period is a mandatory part of the key.  After any sequence of
\* runs no stored row has a null period or a null period_type, every stored
\* row has the period_type configured for the sheet, and the batch of a run
\* has one row for each sheet row with a period and none for the others.
C15_PeriodMandatory ==
    /\ \A r \in Stored : /\ r[ColPeriod] # NULL
                          /\ r[ColPeriodType] = S(sheet.cfg.period_type)
    /\ (run.called /\ run.stage \in {"upsert", "done"}) =>
          /\ \A b \in Batch : b[ColPeriod] # NULL
          /\ Len(run.df.rows) = Len(run.raw) - find_header_row(run.raw) - Cardinality(NoPeriodRows)

\* a run that succeeded on a Google sheet with an empty period cell and
\* stored another row
C15_Witness ==
    /\ run.called /\ run.ok /\ Stored # {}
    /\ \E i \in NoPeriodRows : run.raw[i][1] = T(<<>>)

\* the column names that flatten_columns gives the sheet of a run that found
\* its header row and read the frame
FlatNames(raw) ==
    LET h     == find_header_row(raw)
        multi == IF sheet.imp = "create_update_db"
                 THEN sheet.cfg.name \in {"Chiesi | Weekly Sessions", "Chiesi | Weekly Budget"}
                 ELSE has_multi_header(raw, h)
    IN  Range(flatten_columns(sheet.imp, raw, h, multi, sheet.excel).names)

\* C16: when no column is named 'period' after flatten_columns, the run
\* raises there (and only then), before build_table_if_absent,
\* ensure_table_columns and upsert_dataframe: the existence, the columns and
\* the rows of the target table, and of every other table, are as before.
C16_NoPeriodColumn ==
    [][(RunStep /\ run'.stage \notin {"header", "read"}) =>
          /\ (ColPeriod \notin FlatNames(run'.raw)) <=> (run'.stage = "period")
          /\ run'.stage = "period" => /\ ~run'.ok
                                       /\ db' = db
                                       /\ db'[sheet.cfg.table] = run'.before]_vars

\* a run that fails for want of a period column on a table with stored rows
C16_Witness ==
    /\ run.called /\ run.stage = "period"
    /\ ColPeriod \notin FlatNames(run.raw)
    /\ StoredBefore # {}

(***************************************************************************)
(* Properties of main (SpecMain)                                           *)
(***************************************************************************)
\* C17: main processes the sheets in SHEET_CONFIG order with no recovery.
\* The calls of a start are on sheets 1, 2, ... in turn, only the last of
\* them can have raised and then no further call is made; the table of
\* each sheet that succeeded holds what its call committed, the table of
\* each sheet after the one that raised is as it was at the start, and the
\* completion message is printed exactly when all sheets succeeded.
C17_MainOrder ==
    LET n == Len(mn.log) IN
    /\ \A i \in 1..n : mn.log[i].k = i
    /\ \A i \in 1..(n - 1) : mn.log[i].ok
    /\ (mn.status = "failed") <=> (n > 0 /\ ~mn.log[n].ok)
    /\ (mn.status = "running") => (mn.k = n + 1)
    /\ \A i \in 1..n : mn.log[i].ok => db[SHEET_CONFIG[i].table] = mn.log[i].after
    /\ \A j \in (n + 1)..Len(SHEET_CONFIG) :
          db[SHEET_CONFIG[j].table] = mn.db0[SHEET_CONFIG[j].table]
    /\ mn.printed <=> (n = Len(SHEET_CONFIG) /\ \A i \in 1..n : mn.log[i].ok)

\* a second start that raised on its third sheet after two sheets with rows,
\* on a database where the fourth table already held rows
C17_Witness ==
    /\ mn.pass = 2 /\ mn.status = "failed" /\ Len(mn.log) = 3
    /\ \A i \in {1, 2} : DOMAIN db[SHEET_CONFIG[i].table].rows # {}
    /\ DOMAIN db[SHEET_CONFIG[4].table].rows # {}

(***************************************************************************)
(* Properties of upsert_dataframe (Spec)                                   *)
(***************************************************************************)
\* C18: upsert_dataframe is all-or-nothing.  When it fails the rows of the
\* target table are the rows before the run (with NULL in the columns that
\* ensure_table_columns added ahead of the call), and no staging table
\* exists after any call, failed or successful.
C18_AllOrNothing ==
    /\ \A i \in DOMAIN SHEET_CONFIG : db[TmpOf(SHEET_CONFIG[i].table)] = NoTable
    /\ (run.called /\ run.stage = "upsert") =>
          /\ ~run.ok
          /\ db[sheet.cfg.table].rows =
                [r \in {Widen(x, db[sheet.cfg.table].cols) : x \in StoredBefore} |-> 1]

\* a failed upsert of two rows with the same key into a table with rows
C18_Witness ==
    /\ run.called /\ run.stage = "upsert" /\ StoredBefore # {}
    /\ \E i, j \in DOMAIN run.df.rows :
          i # j /\ KeyOf(run.df.rows[i], PKeys) = KeyOf(run.df.rows[j], PKeys)

\* C19: the frame of an upsert.  After a successful run every row stored
\* before whose key is not in the batch is stored unchanged; a row stored
\* before whose key is in the batch is still stored under that key, with
\* its old value in every column that is not a column of the batch; and a
\* run with an empty batch leaves the rows as they were and no staging table.
C19_UpsertFrame ==
    (run.called /\ run.ok) =>
        LET cols == db[sheet.cfg.table].cols IN
        /\ \A r \in StoredBefore :
              IF \E b \in Batch : SameKey(r, b)
              THEN \E q \in Stored :
                      /\ \A c \in Range(PKeys) : q[c] = r[c]
                      /\ \A c \in DOMAIN r \ Range(run.df.cols) : q[c] = r[c]
              ELSE Widen(r, cols) \in Stored
        /\ Batch = {} => /\ Stored = {Widen(r, cols) : r \in StoredBefore}
                         /\ db[TmpOf(sheet.cfg.table)] = NoTable

\* a successful run updated a stored row that has a value in a column the
\* batch does not have
C19_Witness ==
    /\ run.called /\ run.ok
    /\ \E r \in StoredBefore, b \in Batch :
          /\ SameKey(r, b) /\ OtherSessions(r, b)
          /\ \E c \in DOMAIN r \ Range(run.df.cols) : r[c] # NULL

(***************************************************************************)
(* Properties of repeated runs (Spec)                                      *)
(***************************************************************************)
\* C20: ingest is idempotent.  A run of process_sheet that follows a run on
\* the same sheet content on the same day leaves the target table, columns
\* and rows, as the first of the two left it.
C20_Idempotent ==
    [][(RunStep /\ run.called /\ run'.raw = run.raw /\ run'.today = run.today) =>
          db'[sheet.cfg.table] = db[sheet.cfg.table]]_vars

\* the row b of the sheet has the start and end dates that the stored row r
\* of its key has
SameDates(r, b) ==
    /\ SameKey(r, b)
    /\ {ColStart, ColEnd} \subseteq DOMAIN r \cap DOMAIN b
    /\ r[ColStart] = b[ColStart] /\ r[ColEnd] = b[ColEnd]
    /\ Tag(b[ColEnd]) = "d"

KeptChars(txt) == SelectSeq(txt, LAMBDA c : c \in DigitSet \cup {"-", ",", "."})

\* the text handed to float(): commas dropped when both separators occur, a
\* lone kind of separator split at its first occurrence
NormalizedText(txt) ==
    LET core == KeptChars(txt)
        seps == Range(Separators(core))
    IN  IF seps = {",", "."} THEN SelectSeq(core, LAMBDA c : c # ",")
        ELSE IF seps = {} THEN core
        ELSE SplitRule(core, CHOOSE c \in seps : TRUE)

\* a decimal literal: an optional leading "-", digits, at most one "." with
\* digits on either side of it, and at least one digit in all
ValidNumber(t) ==
    /\ \E i \in DOMAIN t : t[i] \in DigitSet
    /\ \E a \in {0, 1}, b \in 0..Len(t) :
          /\ a <= b
          /\ a = 1 => t[1] = "-"
          /\ \A i \in (a + 1)..b : t[i] \in DigitSet
          /\ b < Len(t) => t[b + 1] = "." /\ \A i \in (b + 2)..Len(t) : t[i] \in DigitSet

\* C23: extract_number is total: every call returns a number or NaN (NULL).
\* It returns NaN when the text holds no digit, sign or separator, and when
\* the normalized text is not a valid number, which is the case of several
\* commas and no dot ('1,234,567') and of a "-" that follows a digit; a valid
\* normalized text gives a number.
C23_Total ==
    nm.called =>
        LET core == KeptChars(nm.txt)
            nan  == nm.out = NULL
        IN  /\ nan \/ (Tag(nm.out) = "f" /\ nm.out[2] \in Int)
            /\ core = <<>> => nan
            /\ ~ValidNumber(NormalizedText(nm.txt)) => nan
            /\ ValidNumber(NormalizedText(nm.txt)) => ~nan
            /\ (Len(Separators(core)) >= 2 /\ Range(Separators(core)) = {","}) => nan
            /\ (\E i \in DOMAIN core, j \in DOMAIN core :
                    i < j /\ core[i] \in DigitSet /\ core[j] = "-") => nan

\* a call on '1,200,200' has returned NaN
C23_Witness ==
    /\ nm.called
    /\ nm.txt = <<"1", ",", "2", "0", "0", ",", "2", "0", "0">>
    /\ nm.out = NULL

====
